---- MODULE Spec2Model ----
(***************************************************************************)
(* False-positive classification and recurrence analytics engine.          *)
(*                                                                         *)
(* Model of FalsePositiveService (services/false-positive.service), the    *)
(* standalone scoring utilities (utils/fp-scoring.utils) and the threshold *)
(* endpoint of FalsePositiveController.                                    *)
(*                                                                         *)
(* Numbers.  Scores, weights, confidences and the two score thresholds are *)
(* IEEE doubles in the code.  A double x is represented by the integer     *)
(*     10 * (x rounded to hundredths) + d ,   d \in {-1, 0, 1}             *)
(* where d tells whether x lies below, on, or above the double nearest to  *)
(* that decimal (0.35 + 0.05 = 0.39999999999999997 is 399, 0.4 is 400).    *)
(* FAdd is the table of the double additions the scoring code performs.    *)
(* Durations are whole minutes.                                            *)
(*                                                                         *)
(* Text.  A text is a sequence of words; String.includes(kw) is modelled   *)
(* as "kw occurs as a contiguous run of words", toLowerCase by Lower.      *)
(***************************************************************************)
EXTENDS Integers, Sequences, FiniteSets, TLC

\* ------------------------------------------------------------------------
\* Bounds of the model
\* ------------------------------------------------------------------------
MaxStore == 2

\* ------------------------------------------------------------------------
\* Generic helpers
\* ------------------------------------------------------------------------
Min(a, b) == IF a <= b THEN a ELSE b

Max(a, b) == IF a >= b THEN a ELSE b

Abs(a) == IF a < 0 THEN 0 - a ELSE a

RECURSIVE SumSeq(_)
SumSeq(s) == IF s = <<>> THEN 0 ELSE Head(s) + SumSeq(Tail(s))

\* ------------------------------------------------------------------------
\* JavaScript values of the `duration` field
\*   absent  : undefined / null
\*   num     : a number (minutes)
\*   numstr  : a string that parses as a number, e.g. "3"
\*   text    : a string that does not, e.g. "abc"
\* ------------------------------------------------------------------------
DurAbsent == [k |-> "absent", v |-> 0]

Num(n) == [k |-> "num", v |-> n]

NumStr(n) == [k |-> "numstr", v |-> n]

TextStr == [k |-> "text", v |-> 0]

\* `x || 0` : undefined, null and 0 give 0, every other number and every
\* non-empty string is kept
OrZero(d) == IF d.k = "absent" THEN Num(0) ELSE d

\* `x < n` with the relational coercion of JavaScript (NaN compares false)
JsLt(d, n) == d.k \in {"num", "numstr"} /\ d.v < n

\* `x >= n`
JsGe(d, n) == d.k \in {"num", "numstr"} /\ d.v >= n

\* Number.prototype.toFixed exists on numbers only; on a string the call
\* is a TypeError
ToFixedThrows(d) == d.k # "num"

\* $lt: [{ $ifNull: ['$duration', 0] }, n] : BSON order puts every string
\* after every number
IfNullZero(d) == IF d.k = "absent" THEN Num(0) ELSE d

MongoLt(d, n) == IfNullZero(d).k = "num" /\ IfNullZero(d).v < n

\* ------------------------------------------------------------------------
\* Text
\* ------------------------------------------------------------------------
\* toLowerCase on the words of the model's vocabulary
Lower(w) ==
  CASE w = "Autoremediado" -> "autoremediado"
    [] w = "GitHub" -> "github"
    [] w = "Actions" -> "actions"
    [] w = "Workflow" -> "workflow"
    [] w = "Cerrado" -> "cerrado"
    [] w = "False" -> "false"
    [] w = "Positive" -> "positive"
    [] w = "Expected" -> "expected"
    [] w = "Si" -> "si"
    [] w = "SI" -> "si"
    [] w = "Yes" -> "yes"
    [] w = "No" -> "no"
    [] w = "TRUE" -> "true"
    [] OTHER -> w

LowerText(t) == [i \in DOMAIN t |-> Lower(t[i])]

\* String.prototype.includes
Includes(t, kw) ==
  \E i \in 0..(Len(t) - Len(kw)) :
    \A j \in 1..Len(kw) : t[i + j] = kw[j]

\* `${content} ${context}`
Combined(content, context) == content \o context

AUTO_REMEDIATION_KEYWORDS ==
  { <<"autoremediado">>, <<"auto-remediado">>, <<"autoremediation">>,
    <<"self-remediation">>, <<"github", "actions">>,
    <<"remediación", "automática">>, <<"automatic", "remediation">>,
    <<"self", "healing">>, <<"auto", "healing">>, <<"automated", "fix">>,
    <<"auto-fix">>, <<"workflow", "completed">>,
    <<"remediation", "successful">> }

AUTO_REMEDIATION_SUCCESS_KEYWORDS ==
  { <<"exitosa">>, <<"successful">>, <<"completed", "successfully">>,
    <<"fixed">>, <<"resolved", "automatically">>, <<"auto-resolved">>,
    <<"funcionó">> }

MANUAL_CLOSE_KEYWORDS ==
  { <<"manually", "closed">>, <<"cerrado", "manualmente">>,
    <<"closed", "by", "user">>, <<"cerrado", "por", "usuario">>,
    <<"manual", "intervention">>, <<"false", "positive">>,
    <<"falso", "positivo">>, <<"not", "an", "issue">>,
    <<"expected", "behavior">> }

LOW_SEVERITY_LEVELS == {"RESOURCE_CONTENTION", "PERFORMANCE"}

AUTO_REMEDIATION_VALUES == {"si", "sí", "yes", "true", "1"}

\* keyword lists local to utils/fp-scoring.utils
UtilAutoRemediationKeywords ==
  { <<"autoremediado">>, <<"auto-remediado">>, <<"github", "actions">>,
    <<"self-healing">>, <<"auto-fix">>, <<"automated", "fix">> }

UtilSuccessKeywords ==
  { <<"exitosa">>, <<"successful">>, <<"completed">>, <<"fixed">> }

UtilManualCloseKeywords ==
  { <<"false", "positive">>, <<"falso", "positivo">>,
    <<"not", "an", "issue">>, <<"cerrado", "manualmente">> }

\* ------------------------------------------------------------------------
\* Free-form remediation signal fields (Autoremediado,
\* FuncionoAutoRemediacion) and other optional strings: Absent is
\* undefined, "" the empty string (both falsy).
\* ------------------------------------------------------------------------
Absent == "<undefined>"

\* JavaScript truthiness of a signal field
Truthy(x) == x # Absent /\ x # ""

\* String(x || '').toLowerCase()
StrOrEmptyLower(x) == IF Truthy(x) THEN Lower(x) ELSE ""

\* ['si','sí','yes','true','1'].includes(String(x || '').toLowerCase())
IsTruthyToken(x) == StrOrEmptyLower(x) \in AUTO_REMEDIATION_VALUES

\* ------------------------------------------------------------------------
\* Double arithmetic of the score
\* ------------------------------------------------------------------------
\* s + w in IEEE double arithmetic, for the partial sums and weights of the
\* scoring paths (all other pairs that occur are exact)
FAdd(s, w) ==
  CASE s = 50 /\ w = 100 -> 151
    [] s = 100 /\ w = 50 -> 151
    [] s = 200 /\ w = 100 -> 301
    [] s = 300 /\ w = 150 -> 449
    [] s = 301 /\ w = 100 -> 400
    [] s = 350 /\ w = 50 -> 399
    [] s = 350 /\ w = 100 -> 449
    [] s = 399 /\ w = 100 -> 500
    [] s = 549 /\ w = 50 -> 600
    [] s = 550 /\ w = 50 -> 601
    [] s = 550 /\ w = 150 -> 701
    [] s = 701 /\ w = 100 -> 800
    [] OTHER -> s + w

RECURSIVE FSum(_, _)
FSum(acc, ws) == IF ws = <<>> THEN acc ELSE FSum(FAdd(acc, Head(ws)), Tail(ws))

\* ------------------------------------------------------------------------
\* Threshold configuration
\* ------------------------------------------------------------------------
ThresholdFields ==
  { "veryShortDurationMinutes", "shortDurationMinutes",
    "mediumDurationMinutes", "highRecurrenceCount", "recurrenceWindowDays",
    "fpScoreThreshold", "uncertainThreshold" }

DEFAULT_FP_THRESHOLDS ==
  [ veryShortDurationMinutes |-> 5,
    shortDurationMinutes |-> 15,
    mediumDurationMinutes |-> 60,
    highRecurrenceCount |-> 5,
    recurrenceWindowDays |-> 30,
    fpScoreThreshold |-> 600,
    uncertainThreshold |-> 300 ]

\* { ...DEFAULT_FP_THRESHOLDS, ...partial } : the fields that partial
\* leaves out fall back to the defaults
MergeSpreadOverDefaults(base, partial) ==
  [f \in ThresholdFields |->
     IF f \in partial.present THEN partial.vals[f] ELSE DEFAULT_FP_THRESHOLDS[f]]

\* { ...base, ...partial } : partial is [present: set of field names,
\* vals: a record giving the value of each present field]
MergeSpread(base, partial) ==
  [f \in ThresholdFields |->
     IF f \in partial.present THEN partial.vals[f] ELSE base[f]]

\* FalsePositiveService.setThresholds
SetThresholdsResult(cur, partial) == MergeSpread(cur, partial)

\* the weight of every reason code (RECURRING_PATTERN is pushed by no
\* scoring path)
DEFAULT_SCORE_WEIGHTS ==
  [ VERY_SHORT_DURATION |-> 350,
    SHORT_DURATION |-> 200,
    AUTO_REMEDIATION_SUCCESS |-> 250,
    AUTO_REMEDIATED |-> 150,
    QUICK_MANUAL_CLOSE |-> 150,
    LOW_SEVERITY |-> 100,
    NO_COMMENTS |-> 50,
    RECURRING_PATTERN |-> 100 ]

\* ------------------------------------------------------------------------
\* Scoring engine (FalsePositiveService)
\* ------------------------------------------------------------------------
Reason(code, weight) == [reason |-> code, weight |-> weight]

\* comments of a problem: problem.recentComments?.comments || []
CommentsOf(p) == IF p.recentComments.present THEN p.recentComments.comments ELSE <<>>

\* problem.recentComments?.totalCount || 0
CommentCountOf(p) == IF p.recentComments.present THEN p.recentComments.totalCount ELSE 0

CombinedLower(c) == Combined(LowerText(c.content), LowerText(c.context))

MatchesAny(t, kws) == \E kw \in kws : Includes(t, kw)

\* FalsePositiveService.detectAutoRemediation
detectAutoRemediation(p) ==
  IF Truthy(p.Autoremediado)
  THEN [ isAutoRemediated |-> Lower(p.Autoremediado) \in AUTO_REMEDIATION_VALUES,
         wasSuccessful |-> IsTruthyToken(p.FuncionoAutoRemediacion) ]
  ELSE LET cs == CommentsOf(p)
           hit(c) == MatchesAny(CombinedLower(c), AUTO_REMEDIATION_KEYWORDS)
           isAuto == \E i \in DOMAIN cs : hit(cs[i])
           okKw == \E i \in DOMAIN cs :
                      /\ hit(cs[i])
                      /\ MatchesAny(CombinedLower(cs[i]), AUTO_REMEDIATION_SUCCESS_KEYWORDS)
       IN [ isAutoRemediated |-> isAuto,
            wasSuccessful |-> okKw \/ (isAuto /\ p.status = "CLOSED") ]

\* wasQuickManualClose with the sense of the duration test reversed
wasQuickManualCloseReversed(p) ==
  IF JsLt(p.duration, 10) THEN FALSE
  ELSE \/ \E i \in DOMAIN CommentsOf(p) :
            MatchesAny(CombinedLower(CommentsOf(p)[i]), MANUAL_CLOSE_KEYWORDS)
       \/ \E i \in DOMAIN p.evidence :
            MatchesAny(LowerText(p.evidence[i]), MANUAL_CLOSE_KEYWORDS)

\* wasQuickManualClose with the early return taken only above 10 minutes
wasQuickManualCloseInclusive(p) ==
  IF ~JsGe(p.duration, 10) \/ p.duration = Num(10)
  THEN \/ \E i \in DOMAIN CommentsOf(p) :
            MatchesAny(CombinedLower(CommentsOf(p)[i]), MANUAL_CLOSE_KEYWORDS)
       \/ \E i \in DOMAIN p.evidence :
            MatchesAny(LowerText(p.evidence[i]), MANUAL_CLOSE_KEYWORDS)
  ELSE FALSE

\* FalsePositiveService.wasQuickManualClose
wasQuickManualClose(p) ==
  IF JsGe(p.duration, 10) THEN FALSE
  ELSE \/ \E i \in DOMAIN CommentsOf(p) :
            MatchesAny(CombinedLower(CommentsOf(p)[i]), MANUAL_CLOSE_KEYWORDS)
       \/ \E i \in DOMAIN p.evidence :
            MatchesAny(LowerText(p.evidence[i]), MANUAL_CLOSE_KEYWORDS)

\* calculateConfidence without the three Math.min caps
calculateConfidenceUncapped(score, reasonCount, t) ==
  500 + Min(Abs(score - t.fpScoreThreshold), Abs(score - t.uncertainThreshold))
      + reasonCount * 50

\* FalsePositiveService.calculateConfidence
calculateConfidence(score, reasonCount, t) ==
  LET distanceFromThreshold ==
        Min(Abs(score - t.fpScoreThreshold), Abs(score - t.uncertainThreshold))
      base == Min(500 + distanceFromThreshold, 800)
  IN Min(1000, base + Min(reasonCount * 50, 200))

\* the classification step with strict comparisons
ClassifyStrict(score, t) ==
  IF score > t.fpScoreThreshold THEN "FALSE_POSITIVE"
  ELSE IF score > t.uncertainThreshold THEN "UNCERTAIN"
  ELSE "TRUE_POSITIVE"

\* the classification step of calculateFPScore
Classify(score, t) ==
  IF score >= t.fpScoreThreshold THEN "FALSE_POSITIVE"
  ELSE IF score >= t.uncertainThreshold THEN "UNCERTAIN"
  ELSE "TRUE_POSITIVE"

\* the clamp with the upper bound below the largest sum of weights
Clamp01Below(score) == Min(800, Max(0, score))

\* Math.min(1.0, Math.max(0.0, score))
Clamp01(score) == Min(1000, Max(0, score))

Thrown == [ threw |-> TRUE, score |-> 0, classification |-> "NONE",
            reasons |-> <<>>, confidence |-> 0 ]

\* FalsePositiveService.calculateFPScore with this.thresholds = t.
\* The result has threw = TRUE when a duration.toFixed call is a TypeError.
calculateFPScore(p, t) ==
  LET duration == OrZero(p.duration)
      veryShort == JsLt(duration, t.veryShortDurationMinutes)
      short == ~veryShort /\ JsLt(duration, t.shortDurationMinutes)
      r1 == IF veryShort THEN <<Reason("VERY_SHORT_DURATION", 350)>>
            ELSE IF short THEN <<Reason("SHORT_DURATION", 200)>>
            ELSE <<>>
      ar == detectAutoRemediation(p)
      r2 == IF ar.isAutoRemediated
            THEN IF ar.wasSuccessful
                 THEN <<Reason("AUTO_REMEDIATION_SUCCESS", 250)>>
                 ELSE <<Reason("AUTO_REMEDIATED", 150)>>
            ELSE <<>>
      r3 == IF CommentCountOf(p) = 0 THEN <<Reason("NO_COMMENTS", 50)>> ELSE <<>>
      quick == wasQuickManualClose(p)
      r4 == IF quick THEN <<Reason("QUICK_MANUAL_CLOSE", 150)>> ELSE <<>>
      r5 == IF p.severityLevel \in LOW_SEVERITY_LEVELS
            THEN <<Reason("LOW_SEVERITY", 100)>> ELSE <<>>
      reasons == r1 \o r2 \o r3 \o r4 \o r5
      score == Clamp01(FSum(0, [i \in DOMAIN reasons |-> reasons[i].weight]))
  IN IF (veryShort \/ short \/ quick) /\ ToFixedThrows(duration)
     THEN Thrown
     ELSE [ threw |-> FALSE,
            score |-> score,
            classification |-> Classify(score, t),
            reasons |-> reasons,
            confidence |-> calculateConfidence(score, Len(reasons), t) ]

\* ------------------------------------------------------------------------
\* Standalone scoring utilities (utils/fp-scoring.utils)
\* ------------------------------------------------------------------------
\* classifyByScore
classifyByScore(score, t) ==
  IF score >= t.fpScoreThreshold THEN "FALSE_POSITIVE"
  ELSE IF score >= t.uncertainThreshold THEN "UNCERTAIN"
  ELSE "TRUE_POSITIVE"

\* calculateConfidence of the utilities
utilsCalculateConfidence(score, reasonCount, t) ==
  LET distanceFromThreshold ==
        Min(Abs(score - t.fpScoreThreshold), Abs(score - t.uncertainThreshold))
      base == Min(500 + distanceFromThreshold, 800)
  IN Min(1000, base + Min(reasonCount * 50, 200))

\* detectAutoRemediation of the utilities: the explicit branch is taken
\* whenever Autoremediado !== undefined
utilsDetectAutoRemediation(p) ==
  IF p.Autoremediado # Absent
  THEN [ isAutoRemediated |-> Lower(p.Autoremediado) \in AUTO_REMEDIATION_VALUES,
         wasSuccessful |-> IsTruthyToken(p.FuncionoAutoRemediacion) ]
  ELSE LET cs == CommentsOf(p)
           hit(c) == MatchesAny(CombinedLower(c), UtilAutoRemediationKeywords)
           isAuto == \E i \in DOMAIN cs : hit(cs[i])
           okKw == \E i \in DOMAIN cs :
                      /\ hit(cs[i])
                      /\ MatchesAny(CombinedLower(cs[i]), UtilSuccessKeywords)
       IN [ isAutoRemediated |-> isAuto,
            wasSuccessful |-> okKw \/ (isAuto /\ p.status = "CLOSED") ]

\* calculateFPScore(problem, thresholds) of the utilities
utilsCalculateFPScore(p, t) ==
  LET duration == OrZero(p.duration)
      veryShort == JsLt(duration, t.veryShortDurationMinutes)
      short == ~veryShort /\ JsLt(duration, t.shortDurationMinutes)
      r1 == IF veryShort THEN <<Reason("VERY_SHORT_DURATION", 350)>>
            ELSE IF short THEN <<Reason("SHORT_DURATION", 200)>>
            ELSE <<>>
      ar == utilsDetectAutoRemediation(p)
      r2 == IF ar.isAutoRemediated
            THEN IF ar.wasSuccessful
                 THEN <<Reason("AUTO_REMEDIATION_SUCCESS", 250)>>
                 ELSE <<Reason("AUTO_REMEDIATED", 150)>>
            ELSE <<>>
      commentCount == CommentCountOf(p)
      r3 == IF commentCount = 0 THEN <<Reason("NO_COMMENTS", 50)>> ELSE <<>>
      quick == /\ JsLt(duration, 10)
               /\ commentCount > 0
               /\ \E i \in DOMAIN CommentsOf(p) :
                     MatchesAny(LowerText(CommentsOf(p)[i].content),
                                UtilManualCloseKeywords)
      r4 == IF quick THEN <<Reason("QUICK_MANUAL_CLOSE", 150)>> ELSE <<>>
      r5 == IF p.severityLevel \in LOW_SEVERITY_LEVELS
            THEN <<Reason("LOW_SEVERITY", 100)>> ELSE <<>>
      reasons == r1 \o r2 \o r3 \o r4 \o r5
      score == Clamp01(FSum(0, [i \in DOMAIN reasons |-> reasons[i].weight]))
  IN IF (veryShort \/ short \/ quick) /\ ToFixedThrows(duration)
     THEN Thrown
     ELSE [ threw |-> FALSE,
            score |-> score,
            classification |-> classifyByScore(score, t),
            reasons |-> reasons,
            confidence |-> utilsCalculateConfidence(score, Len(reasons), t) ]

\* `x > n` with the relational coercion of JavaScript
JsGt(d, n) == d.k \in {"num", "numstr"} /\ d.v > n

\* the outcome of a classification call: threw is TRUE when the call ends
\* in a TypeError
Classified(c) == [threw |-> FALSE, classification |-> c]

\* quickClassify of the utilities
quickClassify(p) ==
  IF JsLt(OrZero(p.duration), 5) /\ IsTruthyToken(p.Autoremediado)
  THEN Classified("FALSE_POSITIVE")
  ELSE IF JsGt(OrZero(p.duration), 60) /\ p.recentComments.present
          /\ p.recentComments.totalCount > 0
  THEN Classified("TRUE_POSITIVE")
  ELSE [ threw |-> utilsCalculateFPScore(p, DEFAULT_FP_THRESHOLDS).threw,
         classification |->
           utilsCalculateFPScore(p, DEFAULT_FP_THRESHOLDS).classification ]

\* ------------------------------------------------------------------------
\* Timestamps.  ISO strings are compared as strings by the store; a
\* timestamp is represented by an integer with the same order:
\*   date-only string of day d (a strict prefix of every ISO string of
\*   that day) is 20*d, the ISO string of day d, slot h (h >= 0) is
\*   20*d + 1 + h, slot 0 being midnight.
\* ------------------------------------------------------------------------
NoTime == 0 - 1

Iso(d, h) == 20 * d + 1 + h

DateOnly(d) == 20 * d

\* new Date(x).toISOString()
ToISOString(x) == IF x % 20 = 0 THEN x + 1 ELSE x

UnknownDate == 999999

\* the key taken from the whole startTime string instead of its first ten
\* characters
DateKeyWholeTimestamp(p) == IF p.startTime = NoTime THEN UnknownDate ELSE p.startTime

\* problem.startTime?.substring(0, 10) || 'unknown'
DateKey(p) == IF p.startTime = NoTime THEN UnknownDate ELSE p.startTime \div 20

\* { startTime: { $gte: from, $lte: to } } ; a document without startTime
\* matches no range condition
MatchesWindow(p, from, to) ==
  /\ (from # NoTime \/ to # NoTime) => p.startTime # NoTime
  /\ from # NoTime => p.startTime >= from
  /\ to # NoTime => p.startTime <= to

\* ascending sequence of a finite set of integers
RECURSIVE SortedSeq(_)
SortedSeq(S) ==
  IF S = {} THEN <<>>
  ELSE LET m == CHOOSE x \in S : \A y \in S : x <= y
       IN <<m>> \o SortedSeq(S \ {m})

\* ------------------------------------------------------------------------
\* Summary aggregator
\* ------------------------------------------------------------------------
Classifications == {"FALSE_POSITIVE", "TRUE_POSITIVE", "UNCERTAIN"}

DurationBuckets == {"<5min", "5-15min", "15-60min", "1-4h", ">4h"}

\* the duration category chain with a misspelt bucket key
DurationBucketMisspelt(p) ==
  LET duration == OrZero(p.duration)
  IN IF JsLt(duration, 5) THEN "<5min"
     ELSE IF JsLt(duration, 15) THEN "5-15min"
     ELSE IF JsLt(duration, 60) THEN "15-60 min"
     ELSE IF JsLt(duration, 240) THEN "1-4h"
     ELSE ">4h"

\* the duration category chain of calculateSummary
DurationBucket(p) ==
  LET duration == OrZero(p.duration)
  IN IF JsLt(duration, 5) THEN "<5min"
     ELSE IF JsLt(duration, 15) THEN "5-15min"
     ELSE IF JsLt(duration, 60) THEN "15-60min"
     ELSE IF JsLt(duration, 240) THEN "1-4h"
     ELSE ">4h"

\* a quotient n / d kept as the pair of its operands; den = 0 is the NaN
\* (0 / 0) or the infinity of a division by zero
Ratio(n, d) == [num |-> n, den |-> d]

\* FalsePositiveService.getEmptySummary (byDuration is the empty object;
\* the rates and the average are the literal 0)
getEmptySummary ==
  [ totalProblems |-> 0,
    falsePositives |-> 0, truePositives |-> 0, uncertain |-> 0,
    autoRemediated |-> 0, totalFPScore |-> 0,
    falsePositiveRate |-> Ratio(0, 1),
    autoRemediationRate |-> Ratio(0, 1),
    avgFPScore |-> Ratio(0, 1),
    byClassification |-> [c \in Classifications |-> 0],
    byDuration |-> [b \in {} |-> 0],
    bySeverity |-> [v \in {} |-> 0],
    byReason |-> [r \in {} |-> 0],
    dailyTrend |-> <<>>,
    topRecurringEntities |-> <<>> ]

HasReason(res, codes) == \E i \in DOMAIN res.reasons : res.reasons[i].reason \in codes

\* the fold of calculateSummary over the scored problems: problems[i]
\* carries fpAnalysis scores[i].  falsePositiveRate, autoRemediationRate
\* and avgFPScore are quotients by the number of problems.
FoldSummary(problems, scores) ==
    LET idx == DOMAIN problems
        nClass(c) == Cardinality({i \in idx : scores[i].classification = c})
        dates == {DateKey(problems[i]) : i \in idx}
        sortedDates == SortedSeq(dates)
        day(d) == {i \in idx : DateKey(problems[i]) = d}
        sevs == {problems[i].severityLevel : i \in idx}
        codes == UNION {{scores[i].reasons[j].reason : j \in DOMAIN scores[i].reasons} : i \in idx}
        nAuto == Cardinality({i \in idx :
                   HasReason(scores[i], {"AUTO_REMEDIATED", "AUTO_REMEDIATION_SUCCESS"})})
        sumScore == SumSeq([i \in idx |-> scores[i].score])
    IN [ totalProblems |-> Len(problems),
         falsePositives |-> nClass("FALSE_POSITIVE"),
         truePositives |-> nClass("TRUE_POSITIVE"),
         uncertain |-> nClass("UNCERTAIN"),
         autoRemediated |-> nAuto,
         totalFPScore |-> sumScore,
         falsePositiveRate |-> Ratio(nClass("FALSE_POSITIVE"), Len(problems)),
         autoRemediationRate |-> Ratio(nAuto, Len(problems)),
         avgFPScore |-> Ratio(sumScore, Len(problems)),
         byClassification |-> [c \in Classifications |-> nClass(c)],
         byDuration |->
           [b \in DurationBuckets |->
              Cardinality({i \in idx : DurationBucket(problems[i]) = b})],
         bySeverity |->
           [v \in sevs |-> Cardinality({i \in idx : problems[i].severityLevel = v})],
         byReason |->
           [r \in codes |-> Cardinality({i \in idx : HasReason(scores[i], {r})})],
         dailyTrend |->
           [k \in DOMAIN sortedDates |->
              [ date |-> sortedDates[k],
                total |-> Cardinality(day(sortedDates[k])),
                falsePositives |->
                  Cardinality({i \in day(sortedDates[k]) :
                                 scores[i].classification = "FALSE_POSITIVE"}),
                truePositives |->
                  Cardinality({i \in day(sortedDates[k]) :
                                 scores[i].classification = "TRUE_POSITIVE"}),
                fpRate |->
                  Ratio(Cardinality({i \in day(sortedDates[k]) :
                                       scores[i].classification = "FALSE_POSITIVE"}),
                        Cardinality(day(sortedDates[k]))) ]],
         topRecurringEntities |-> <<>> ]

\* calculateSummary without the return for an empty input
calculateSummaryUnguarded(problems, scores) == FoldSummary(problems, scores)

\* FalsePositiveService.calculateSummary
calculateSummary(problems, scores) ==
  IF Len(problems) = 0 THEN getEmptySummary
  ELSE FoldSummary(problems, scores)

\* sum of the counts of a count table
RECURSIVE SumTable(_)
SumTable(f) ==
  IF DOMAIN f = {} THEN 0
  ELSE LET k == CHOOSE x \in DOMAIN f : TRUE
       IN f[k] + SumTable([x \in DOMAIN f \ {k} |-> f[x]])

\* n / d > m / 1000 for a rate kept as numerator n over denominator d
\* (0 when d = 0)
RateGt(n, d, m) == d > 0 /\ n * 1000 > m * d

\* ------------------------------------------------------------------------
\* Entity recurrence analyzer
\* ------------------------------------------------------------------------
RecurrenceLimit == 50

MinRecurrence == 2

\* $unwind of affectedEntities: one <<document, position>> pair per
\* affected entity of each matching document
UnwoundPairs(docs, from, to) ==
  UNION { {<<i, j>> : j \in DOMAIN docs[i].affectedEntities} :
            i \in {k \in DOMAIN docs : MatchesWindow(docs[k], from, to)} }

PairEntity(docs, pr) == docs[pr[1]].affectedEntities[pr[2]]

\* $group by affectedEntities.entityId.id
EntityGroup(docs, from, to, id) ==
  {pr \in UnwoundPairs(docs, from, to) : PairEntity(docs, pr).id = id}

GroupedIds(docs, from, to) ==
  {PairEntity(docs, pr).id : pr \in UnwoundPairs(docs, from, to)}

\* the pipeline without the $match on totalProblems
RecurringIdsUnfiltered(docs, from, to) == GroupedIds(docs, from, to)

\* $match totalProblems >= 2
RecurringIds(docs, from, to) ==
  {id \in GroupedIds(docs, from, to) :
     Cardinality(EntityGroup(docs, from, to, id)) >= MinRecurrence}

\* the sequences of ids, taken from <<id, key>> pairs, in which every
\* element has a key at least that of its successor (the order among equal
\* keys is not determined)
RECURSIVE SortedOrders(_)
SortedOrders(keyed) ==
  IF keyed = {} THEN {<<>>}
  ELSE UNION { {<<m[1]>> \o s : s \in SortedOrders(keyed \ {m})} :
               m \in {x \in keyed : \A y \in keyed : x[2] >= y[2]} }

\* <<id, totalProblems>> of every group that passes the $match
GroupTotals(docs, from, to) ==
  { <<id, Cardinality(EntityGroup(docs, from, to, id))>> :
      id \in RecurringIds(docs, from, to) }

\* the pipeline with $sort: { totalProblems: 1 }
RecurrenceOrdersAscending(docs, from, to) ==
  {SubSeq(s, 1, Min(Len(s), RecurrenceLimit)) :
     s \in SortedOrders({<<g[1], 0 - g[2]>> : g \in GroupTotals(docs, from, to)})}

\* $sort totalProblems descending then $limit: the orders the store may
\* return
RecurrenceOrders(docs, from, to) ==
  {SubSeq(s, 1, Min(Len(s), RecurrenceLimit)) :
     s \in SortedOrders(GroupTotals(docs, from, to))}

\* the problem handed to calculateFPScore for one grouped problem: only
\* duration, status and Autoremediado come from the record
MockProblem(p) ==
  [ id |-> p.id, title |-> p.title,
    duration |-> OrZero(p.duration),
    severityLevel |-> "RESOURCE_CONTENTION",
    status |-> p.status,
    startTime |-> p.startTime,
    recentComments |-> [present |-> TRUE, totalCount |-> 0, comments |-> <<>>],
    Autoremediado |-> p.Autoremediado,
    FuncionoAutoRemediacion |-> Absent,
    evidence |-> <<>>,
    affectedEntities |-> <<>> ]

\* the record of one group with the rules of the recommendation tried in
\* the opposite order
EntityRecordDelayFirst(id, total, avgSum, avgCnt, autoRemediatedCount, fpCount, hrc, threw) ==
  [ entityId |-> id,
    totalProblems |-> total,
    avgSum |-> avgSum, avgCnt |-> avgCnt,
    autoRemediated |-> autoRemediatedCount,
    fpCount |-> fpCount,
    recurrenceScore |->
      IF hrc = 0 THEN 1000
      ELSE IF hrc > 0 THEN Min(1000, (total * 1000) \div hrc)
      ELSE 0 - ((total * 1000) \div (0 - hrc)),
    recommendation |->
      IF (avgCnt = 0 \/ avgSum < 5 * avgCnt) THEN "ADD_ALERT_DELAY"
      ELSE IF total > 10 /\ autoRemediatedCount * 10 > 8 * total
           THEN "RAISE_DETECTION_THRESHOLD"
      ELSE IF fpCount * 10 > 7 * total THEN "TUNE_THRESHOLDS"
      ELSE "NONE",
    threw |-> threw ]

\* the record returned for one group: recurrenceScore is
\* min(1, totalProblems / highRecurrenceCount) and the recommendation is
\* the first rule that applies; avgDuration ($avg skips non-numeric
\* values) is avgSum / avgCnt, null when avgCnt = 0
EntityRecord(id, total, avgSum, avgCnt, autoRemediatedCount, fpCount, hrc, threw) ==
  [ entityId |-> id,
    totalProblems |-> total,
    avgSum |-> avgSum, avgCnt |-> avgCnt,
    autoRemediated |-> autoRemediatedCount,
    fpCount |-> fpCount,
    recurrenceScore |->
      IF hrc = 0 THEN 1000
      ELSE IF hrc > 0 THEN Min(1000, (total * 1000) \div hrc)
      ELSE 0 - ((total * 1000) \div (0 - hrc)),
    recommendation |->
      IF fpCount * 10 > 7 * total THEN "TUNE_THRESHOLDS"
      ELSE IF total > 10 /\ autoRemediatedCount * 10 > 8 * total
           THEN "RAISE_DETECTION_THRESHOLD"
      ELSE IF (avgCnt = 0 \/ avgSum < 5 * avgCnt) THEN "ADD_ALERT_DELAY"
      ELSE "NONE",
    threw |-> threw ]

\* the numeric durations of a group, as the $avg accumulator sees them
NumericPairs(docs, grp) == {pr \in grp : docs[pr[1]].duration.k = "num"}

\* calculateFPScore on the mock problem of every grouped problem
MockScores(docs, grp, t) ==
  [pr \in grp |-> calculateFPScore(MockProblem(docs[pr[1]]), t)]

\* the counts of one group, taken from the mock scores
EntityCounts(docs, id, grp, numeric, mock, t) ==
  EntityRecord(id,
    Cardinality(grp),
    SumTable([pr \in numeric |-> docs[pr[1]].duration.v]),
    Cardinality(numeric),
    Cardinality({pr \in grp : IsTruthyToken(docs[pr[1]].Autoremediado)}),
    Cardinality({pr \in grp : mock[pr].classification = "FALSE_POSITIVE"}),
    t.highRecurrenceCount,
    \E pr \in grp : mock[pr].threw)

\* the per-entity mapping of analyzeEntityRecurrence with this.thresholds
\* = t
EntityAnalysisOfGroup(docs, id, grp, t) ==
  EntityCounts(docs, id, grp, NumericPairs(docs, grp), MockScores(docs, grp, t), t)

EntityAnalysis(docs, from, to, id, t) ==
  EntityAnalysisOfGroup(docs, id, EntityGroup(docs, from, to, id), t)

\* the result of the map step: it throws when any mapping throws
MapResult(ents) ==
  [ threw |-> \E k \in DOMAIN ents : ents[k].threw,
    entities |-> ents ]

\* FalsePositiveService.analyzeEntityRecurrence after the aggregate has
\* returned the groups in the order `order`
MapRecurrence(docs, from, to, order, t) ==
  MapResult([k \in DOMAIN order |-> EntityAnalysis(docs, from, to, order[k], t)])

\* ------------------------------------------------------------------------
\* Recommendation generator
\* ------------------------------------------------------------------------
Lookup(f, k) == IF k \in DOMAIN f THEN f[k] ELSE 0

\* FalsePositiveService.generateRecommendations with this.thresholds = t
generateRecommendations(summary, t) ==
  LET total == summary.totalProblems
      fp == summary.falsePositives
      tier == IF RateGt(fp, total, 500) THEN <<"CRITICAL">>
              ELSE IF RateGt(fp, total, 300) THEN <<"HIGH">>
              ELSE IF RateGt(fp, total, 100) THEN <<"MODERATE">>
              ELSE <<"HEALTHY">>
      auto == IF RateGt(summary.autoRemediated, total, 500)
              THEN <<"AUTO_REMEDIATION">> ELSE <<>>
      short == IF RateGt(Lookup(summary.byDuration, "<5min"), total, 300)
               THEN <<"SHORT_DURATION">> ELSE <<>>
      highRecurrence ==
        SelectSeq(summary.topRecurringEntities,
                  LAMBDA e : e.totalProblems >= t.highRecurrenceCount)
      rec == IF Len(highRecurrence) > 0 THEN <<"HIGH_RECURRENCE">> ELSE <<>>
      rc == IF Lookup(summary.bySeverity, "RESOURCE_CONTENTION") * 10 > total * 4
            THEN <<"RESOURCE_CONTENTION">> ELSE <<>>
  IN tier \o auto \o short \o rec \o rc

\* ------------------------------------------------------------------------
\* Aggregation path (FalsePositiveService.getSummaryFast)
\* ------------------------------------------------------------------------
\* $in: [{ $toLower: { $toString: { $ifNull: ['$Autoremediado', ''] } } }, [...]]
MongoTruthyToken(x) ==
  (IF x = Absent THEN "" ELSE Lower(x)) \in AUTO_REMEDIATION_VALUES

\* the fpScore expression of the $addFields stage ($add sums its operands
\* left to right: duration, auto-remediation, low severity, no comments)
FastScore(p) ==
  LET d == IF MongoLt(p.duration, 5) THEN 350
           ELSE IF MongoLt(p.duration, 15) THEN 200
           ELSE IF MongoLt(p.duration, 60) THEN 100
           ELSE 0
      a == IF MongoTruthyToken(p.Autoremediado) /\ MongoTruthyToken(p.FuncionoAutoRemediacion)
           THEN 250
           ELSE IF MongoTruthyToken(p.Autoremediado) THEN 100
           ELSE 0
      l == IF p.severityLevel \in {"RESOURCE_CONTENTION", "PERFORMANCE"} THEN 100 ELSE 0
      n == IF CommentCountOf(p) = 0 THEN 50 ELSE 0
  IN FSum(0, SelectSeq(<<d, a, l, n>>, LAMBDA w : w # 0))

\* the durationCategory $switch
FastDurationCategory(p) ==
  IF MongoLt(p.duration, 5) THEN "<5min"
  ELSE IF MongoLt(p.duration, 15) THEN "5-15min"
  ELSE IF MongoLt(p.duration, 60) THEN "15-60min"
  ELSE IF MongoLt(p.duration, 240) THEN "1-4h"
  ELSE ">4h"

\* the summary getSummaryFast builds from the $group result over docs
\* (bySeverity from the second aggregate over sevDocs)
FastSummary(docs, sevDocs) ==
  LET idx == DOMAIN docs
      sevs == {sevDocs[i].severityLevel : i \in DOMAIN sevDocs}
      nFP == Cardinality({i \in idx : FastScore(docs[i]) >= 600})
      nTP == Cardinality({i \in idx : FastScore(docs[i]) < 300})
      nUN == Cardinality({i \in idx : FastScore(docs[i]) >= 300 /\ FastScore(docs[i]) < 600})
  IN [ totalProblems |-> Len(docs),
       falsePositives |-> nFP,
       truePositives |-> nTP,
       uncertain |-> nUN,
       autoRemediated |->
         Cardinality({i \in idx : MongoTruthyToken(docs[i].Autoremediado)}),
       totalFPScore |-> SumSeq([i \in idx |-> FastScore(docs[i])]),
       byClassification |->
         [c \in Classifications |->
            IF c = "FALSE_POSITIVE" THEN nFP
            ELSE IF c = "TRUE_POSITIVE" THEN nTP ELSE nUN],
       byDuration |->
         [b \in DurationBuckets |->
            Cardinality({i \in idx : FastDurationCategory(docs[i]) = b})],
       bySeverity |->
         [v \in sevs |->
            Cardinality({i \in DOMAIN sevDocs : sevDocs[i].severityLevel = v})],
       byReason |-> [r \in {} |-> 0],
       dailyTrend |-> <<>>,
       topRecurringEntities |-> <<>> ]

\* the recommendations getSummaryFast derives inline
FastRecommendations(summary) ==
  LET total == summary.totalProblems
      tier == IF RateGt(summary.falsePositives, total, 500) THEN <<"CRITICAL">>
              ELSE IF RateGt(summary.falsePositives, total, 300) THEN <<"HIGH">>
              ELSE <<>>
      auto == IF RateGt(summary.autoRemediated, total, 500)
              THEN <<"AUTO_REMEDIATION">> ELSE <<>>
      short == IF summary.byDuration["<5min"] * 1000 > 300 * Max(total, 1)
               THEN <<"SHORT_DURATION">> ELSE <<>>
  IN tier \o auto \o short

\* ------------------------------------------------------------------------
\* Problem records of the model
\* ------------------------------------------------------------------------
NoComments == [present |-> TRUE, totalCount |-> 0, comments |-> <<>>]

CommentsAbsent == [present |-> FALSE, totalCount |-> 0, comments |-> <<>>]

Comment(content, context) == [content |-> content, context |-> context]

\* "Autoremediado via GitHub Actions" (attempt keyword only)
AutoComment == Comment(<<"Autoremediado", "via", "GitHub", "Actions">>, <<>>)

\* "Workflow completed successfully" (attempt and success keyword)
AutoOkComment == Comment(<<"Workflow", "completed", "successfully">>, <<>>)

\* "Cerrado manualmente" with context "False Positive"
ManualComment == Comment(<<"Cerrado", "manualmente">>, <<"False", "Positive">>)

PlainComment == Comment(<<"investigating">>, <<"dynatrace">>)

WithComments(n, cs) == [present |-> TRUE, totalCount |-> n, comments |-> cs]

E1 == [id |-> "e1", name |-> "host-1", type |-> "HOST"]

E2 == [id |-> "e2", name |-> "svc-2", type |-> "SERVICE"]

Problem(id, title, status, sev, dur, start, auto, func, rc, ev, ents) ==
  [ id |-> id, title |-> title, status |-> status, severityLevel |-> sev,
    duration |-> dur, startTime |-> start,
    Autoremediado |-> auto, FuncionoAutoRemediacion |-> func,
    recentComments |-> rc, evidence |-> ev, affectedEntities |-> ents ]

\* the records the ingestion job may write to the collection
ProblemPool ==
  { Problem("P-1", "CPU saturation", "CLOSED", "RESOURCE_CONTENTION", Num(10),
            Iso(1, 1), "Si", "Si", NoComments, <<>>, <<E1>>),
    Problem("P-2", "CPU saturation", "CLOSED", "RESOURCE_CONTENTION", Num(12),
            Iso(1, 2), "SI", "Yes", NoComments, <<>>, <<E1>>),
    Problem("P-3", "Memory pressure", "CLOSED", "RESOURCE_CONTENTION", Num(3),
            Iso(2, 1), "Si", "Si", NoComments, <<>>, <<E1, E2>>),
    Problem("P-5", "Failure rate increase", "CLOSED", Absent, NumStr(3),
            NoTime, Absent, Absent, CommentsAbsent, <<>>, <<E2>>),
    Problem("P-6", "Response time degradation", "CLOSED", "AVAILABILITY", Num(30),
            Iso(3, 0), "", Absent, WithComments(1, <<AutoComment>>),
            <<>>, <<E2, E2>>),
    Problem("P-7", "Response time degradation", "OPEN", "PERFORMANCE", Num(0 - 5),
            Iso(3, 2), "No", "Si", WithComments(1, <<ManualComment>>),
            <<>>, <<>>),
    Problem("P-8", "Host unavailable", "CLOSED", "AVAILABILITY", DurAbsent,
            NoTime, Absent, Absent, CommentsAbsent, <<>>, <<E1>>) }

\* partial threshold objects sent by clients
Partial(fields, vals) == [present |-> fields, vals |-> vals]

NoThresholds == Partial({}, DEFAULT_FP_THRESHOLDS)

UpdateBodies ==
  { Partial({"fpScoreThreshold", "highRecurrenceCount"},
            [DEFAULT_FP_THRESHOLDS EXCEPT !.fpScoreThreshold = 1500,
                                          !.highRecurrenceCount = 2]),
    Partial({"fpScoreThreshold"}, [DEFAULT_FP_THRESHOLDS EXCEPT !.fpScoreThreshold = 0 - 100]),
    Partial({"fpScoreThreshold", "uncertainThreshold"}, DEFAULT_FP_THRESHOLDS),
    Partial({"uncertainThreshold"}, [DEFAULT_FP_THRESHOLDS EXCEPT !.uncertainThreshold = 800]),
    Partial({"highRecurrenceCount"}, [DEFAULT_FP_THRESHOLDS EXCEPT !.highRecurrenceCount = 2]) }

\* thresholds carried by analysis requests
RequestThresholds ==
  { NoThresholds,
    Partial({"fpScoreThreshold"}, [DEFAULT_FP_THRESHOLDS EXCEPT !.fpScoreThreshold = 1500]) }

\* [from, to] of a request, as sent (date-only strings or absent)
Windows ==
  { [from |-> NoTime, to |-> NoTime],
    [from |-> DateOnly(1), to |-> DateOnly(3)] }

\* limit of a request; 0 stands for an absent limit
Limits == {0, 1}

AnalysisRequests ==
  { [dateFrom |-> w.from, dateTo |-> w.to, limit |-> l, thresholds |-> th] :
      w \in Windows, l \in Limits, th \in RequestThresholds }

\* ------------------------------------------------------------------------
\* State
\* ------------------------------------------------------------------------
VARIABLES
  thresholds,   \* FalsePositiveService.thresholds of the singleton service
  store,        \* the problems collection, in insertion order
  req,          \* the asynchronous request in flight and its locals
  out           \* the response sent by the step just taken, if any

vars == <<thresholds, store, req, out>>

Idle == [pc |-> "idle"]

NoResponse == [op |-> "none", status |-> 0]

\* collection.find(query).sort({ startTime: -1 }).limit(limit): the index
\* sequences the store may return (order among equal keys not determined)
FindOrders(docs, from, to, limit) ==
  LET hit == {i \in DOMAIN docs : MatchesWindow(docs[i], from, to)}
      n == Cardinality(hit)
      sorted == {s \in [1..n -> hit] :
                   /\ \A a, b \in 1..n : a # b => s[a] # s[b]
                   /\ \A a \in 1..n :
                        a < n => docs[s[a]].startTime >= docs[s[a + 1]].startTime}
  IN {SubSeq(s, 1, Min(n, limit)) : s \in sorted}

\* analyzeProblems whose classification step reads the cutoffs of the
\* configuration the service was constructed with
analyzeProblemsMixed(problems, t) ==
  [i \in DOMAIN problems |->
     IF calculateFPScore(problems[i], t).threw
     THEN calculateFPScore(problems[i], t)
     ELSE [calculateFPScore(problems[i], t) EXCEPT
             !.classification =
                Classify(calculateFPScore(problems[i], t).score,
                         DEFAULT_FP_THRESHOLDS)]]

\* FalsePositiveService.analyzeProblems
analyzeProblems(problems, t) == [i \in DOMAIN problems |-> calculateFPScore(problems[i], t)]

AnyThrew(scores) == \E i \in DOMAIN scores : scores[i].threw

\* request.limit || 10000
EffectiveLimit(r) == IF r.limit = 0 THEN 10000 ELSE r.limit

\* new Date(x) of an optional request date, then toISOString in the pipeline
WindowIso(x) == IF x = NoTime THEN NoTime ELSE ToISOString(x)

\* ------------------------------------------------------------------------
\* Operations
\* ------------------------------------------------------------------------
\* position of a pool problem in the feed of the monitoring API
FeedPosition(p) ==
  CASE p.id = "P-1" -> 1 [] p.id = "P-2" -> 2 [] p.id = "P-3" -> 3
    [] p.id = "P-5" -> 5 [] p.id = "P-6" -> 6 [] p.id = "P-7" -> 7
    [] p.id = "P-8" -> 8

\* ingestion job: upsert of one problem by problemId; problems arrive in
\* feed order, any of them may be missing from the feed
Ingest(p) ==
  /\ Len(store) < MaxStore
  /\ \A i \in DOMAIN store : FeedPosition(store[i]) < FeedPosition(p)
  /\ store' = Append(store, p)
  /\ out' = NoResponse
  /\ UNCHANGED <<thresholds, req>>

\* the validation with the upper bound forgotten
UpdateRejectedLowerOnly(body) ==
  /\ "fpScoreThreshold" \in body.present
  /\ body.vals.fpScoreThreshold < 0

\* the validation of FalsePositiveController.updateThresholds
UpdateRejected(body) ==
  /\ "fpScoreThreshold" \in body.present
  /\ (body.vals.fpScoreThreshold < 0 \/ body.vals.fpScoreThreshold > 1000)

\* PUT /thresholds : FalsePositiveController.updateThresholds
UpdateThresholds(body) ==
  /\ IF UpdateRejected(body)
     THEN /\ out' = [op |-> "updateThresholds", status |-> 400, body |-> body]
          /\ UNCHANGED thresholds
     ELSE /\ thresholds' = SetThresholdsResult(thresholds, body)
          /\ out' = [op |-> "updateThresholds", status |-> 200, body |-> body]
  /\ UNCHANGED <<store, req>>

\* runAnalysis up to its first await: custom thresholds are stored, the
\* query is built and the find is issued
RunAnalysisStart(r) ==
  /\ req.pc = "idle"
  /\ thresholds' = IF r.thresholds.present # {}
                    THEN SetThresholdsResult(thresholds, r.thresholds)
                    ELSE thresholds
  /\ req' = [pc |-> "ra_find", request |-> r]
  /\ out' = NoResponse
  /\ UNCHANGED store

\* tScore: this.thresholds when the batch was scored; t: this.thresholds
\* when the recommendations are generated
RunAnalysisResponse(r, batch, scores, summary, tScore, t) ==
  [ op |-> "runAnalysis", status |-> 200, request |-> r, batch |-> batch,
    scores |-> scores, summary |-> summary,
    recommendations |-> generateRecommendations(summary, t),
    scoreThresholds |-> tScore,
    thresholds |-> t ]

RunAnalysisFailure(r, batch) ==
  [ op |-> "runAnalysis", status |-> 500, request |-> r, batch |-> batch ]

\* runAnalysis from the find result to the next await (or to the response
\* when the recurrence analysis is skipped)
RunAnalysisScore ==
  /\ req.pc = "ra_find"
  /\ \E order \in FindOrders(store, req.request.dateFrom, req.request.dateTo,
                              EffectiveLimit(req.request)) :
       LET batch == [k \in DOMAIN order |-> store[order[k]]]
           scores == analyzeProblems(batch, thresholds)
           summary == calculateSummary(batch, scores)
       IN IF AnyThrew(scores)
          THEN /\ out' = RunAnalysisFailure(req.request, batch)
               /\ req' = Idle
          ELSE IF EffectiveLimit(req.request) >= 1000
          THEN /\ req' = [ pc |-> "ra_agg", request |-> req.request,
                           batch |-> batch, scores |-> scores,
                           summary |-> summary,
                           scoreThresholds |-> thresholds ]
               /\ out' = NoResponse
          ELSE /\ out' = RunAnalysisResponse(req.request, batch, scores,
                                             summary, thresholds, thresholds)
               /\ req' = Idle
  /\ UNCHANGED <<thresholds, store>>

\* the outcome of runAnalysis once the recurrence mapping m is known: the
\* rejection when it threw, else the response with topRecurringEntities
RunAnalysisRecurrenceResponse(m, r) ==
  IF m.threw
  THEN RunAnalysisFailure(r.request, r.batch)
  ELSE RunAnalysisResponse(r.request, r.batch, r.scores,
                           [r.summary EXCEPT !.topRecurringEntities = m.entities],
                           r.scoreThresholds, thresholds)

\* runAnalysis from the result of analyzeEntityRecurrence's aggregate to
\* the response
RunAnalysisRecurrence ==
  /\ req.pc = "ra_agg"
  /\ \E order \in RecurrenceOrders(store, WindowIso(req.request.dateFrom),
                                   WindowIso(req.request.dateTo)) :
       out' = RunAnalysisRecurrenceResponse(
                MapRecurrence(store, WindowIso(req.request.dateFrom),
                              WindowIso(req.request.dateTo), order, thresholds),
                req)
  /\ req' = Idle
  /\ UNCHANGED <<thresholds, store>>

\* GET /summary : getSummaryFast up to its first await (match stage built
\* from the raw request strings, main aggregate issued)
GetSummaryFastStart(w) ==
  /\ req.pc = "idle"
  /\ req' = [pc |-> "sf_main", from |-> w.from, to |-> w.to]
  /\ out' = NoResponse
  /\ UNCHANGED <<thresholds, store>>

\* the main aggregate returns; the severity aggregate is issued
GetSummaryFastMain ==
  /\ req.pc = "sf_main"
  /\ req' = [ pc |-> "sf_sev", from |-> req.from, to |-> req.to,
              docs |-> SelectSeq(store, LAMBDA p : MatchesWindow(p, req.from, req.to)) ]
  /\ out' = NoResponse
  /\ UNCHANGED <<thresholds, store>>

\* the severity aggregate returns; summary and recommendations are built
GetSummaryFastRespond ==
  /\ req.pc = "sf_sev"
  /\ LET sevDocs == SelectSeq(store, LAMBDA p : MatchesWindow(p, req.from, req.to))
         summary == FastSummary(req.docs, sevDocs)
     IN out' = [ op |-> "getSummaryFast", status |-> 200,
                 from |-> req.from, to |-> req.to,
                 docs |-> req.docs, summary |-> summary,
                 recommendations |-> FastRecommendations(summary),
                 thresholds |-> thresholds ]
  /\ req' = Idle
  /\ UNCHANGED <<thresholds, store>>

\* GET /entities : analyzeEntityRecurrence up to its await
EntityRecurrenceStart(w) ==
  /\ req.pc = "idle"
  /\ req' = [pc |-> "er_agg", from |-> WindowIso(w.from), to |-> WindowIso(w.to)]
  /\ out' = NoResponse
  /\ UNCHANGED <<thresholds, store>>

\* what the caller of analyzeEntityRecurrence receives for the mapping m
EntityRecurrenceResponse(m, r) ==
  [ op |-> "analyzeEntityRecurrence",
    status |-> IF m.threw THEN 500 ELSE 200,
    from |-> r.from, to |-> r.to,
    docs |-> store,
    entities |-> IF m.threw THEN <<>> ELSE m.entities,
    thresholds |-> thresholds ]

\* the aggregate returns; the groups are mapped with this.thresholds
EntityRecurrenceRespond ==
  /\ req.pc = "er_agg"
  /\ \E order \in RecurrenceOrders(store, req.from, req.to) :
       out' = EntityRecurrenceResponse(
                MapRecurrence(store, req.from, req.to, order, thresholds), req)
  /\ req' = Idle
  /\ UNCHANGED <<thresholds, store>>

\* ------------------------------------------------------------------------
\* Specification of the service
\* ------------------------------------------------------------------------
Init ==
  /\ thresholds = DEFAULT_FP_THRESHOLDS
  /\ store = <<>>
  /\ req = Idle
  /\ out = NoResponse

Next ==
  \/ \E p \in ProblemPool : Ingest(p)
  \/ \E body \in UpdateBodies : UpdateThresholds(body)
  \/ \E r \in AnalysisRequests : RunAnalysisStart(r)
  \/ RunAnalysisScore
  \/ RunAnalysisRecurrence
  \/ \E w \in Windows : GetSummaryFastStart(w)
  \/ GetSummaryFastMain
  \/ GetSummaryFastRespond
  \/ \E w \in Windows : EntityRecurrenceStart(w)
  \/ EntityRecurrenceRespond

Spec == Init /\ [][Next]_vars

\* ------------------------------------------------------------------------
\* Specification of the scoring functions alone: any threshold
\* configuration, any problem record of ProblemSpace, one call per
\* behaviour
\* ------------------------------------------------------------------------
ScoreCuts == {0, 300, 600, 1000}

VeryShortCuts == {0, 5}

ThresholdSpace ==
  { [DEFAULT_FP_THRESHOLDS EXCEPT !.fpScoreThreshold = f,
                                  !.uncertainThreshold = u,
                                  !.veryShortDurationMinutes = v] :
      f \in ScoreCuts, u \in ScoreCuts, v \in VeryShortCuts }

Durations ==
  { DurAbsent, Num(0 - 5), Num(0), Num(3), Num(5), Num(9), Num(10), Num(15),
    NumStr(3), TextStr }

CommentDigests ==
  { CommentsAbsent, NoComments,
    WithComments(1, <<AutoComment>>),
    WithComments(2, <<PlainComment, AutoOkComment>>),
    WithComments(1, <<ManualComment>>),
    WithComments(0, <<ManualComment>>) }

\* the records of the documented scoring scenarios, and records with the
\* severities and comment counts the grid below leaves out
ScenarioProblems ==
  { Problem("P-0", "CPU saturation", st, sev, dur, Iso(1, 1), auto, Absent, rc, <<>>, <<E1>>) :
      st \in {"OPEN", "CLOSED"},
      sev \in {"ERROR", "AVAILABILITY", "PERFORMANCE"},
      dur \in {Num(3), Num(10), Num(120)},
      auto \in {Absent, "No"},
      rc \in { NoComments,
               WithComments(1, <<PlainComment>>),
               WithComments(1, <<ManualComment>>),
               WithComments(3, <<PlainComment, PlainComment, PlainComment>>) } }

GridProblems ==
  { Problem("P-0", "CPU saturation", st, sev, dur, Iso(1, 1), auto, func, rc, ev, <<E1>>) :
      st \in {"OPEN", "CLOSED"},
      sev \in {Absent, "ERROR", "RESOURCE_CONTENTION"},
      dur \in Durations,
      auto \in {Absent, "", "Si", "No"},
      func \in {Absent, "Si"},
      rc \in CommentDigests,
      ev \in {<<>>, << <<"Expected", "behavior">> >>} }

ProblemSpace == GridProblems \cup ScenarioProblems

\* FalsePositiveService.calculateFPScore on one record
ScoreService ==
  /\ out = NoResponse
  /\ \E p \in ProblemSpace :
       out' = [ op |-> "calculateFPScore", problem |-> p,
                thresholds |-> thresholds,
                result |-> calculateFPScore(p, thresholds) ]
  /\ UNCHANGED <<thresholds, store, req>>

\* calculateFPScore(problem, thresholds) of the utilities on one record
ScoreUtils ==
  /\ out = NoResponse
  /\ \E p \in ProblemSpace :
       out' = [ op |-> "utils.calculateFPScore", problem |-> p,
                thresholds |-> thresholds,
                result |-> utilsCalculateFPScore(p, thresholds) ]
  /\ UNCHANGED <<thresholds, store, req>>

\* quickClassify(problem) of the utilities on one record
ScoreQuick ==
  /\ out = NoResponse
  /\ \E p \in ProblemSpace :
       out' = [ op |-> "utils.quickClassify", problem |-> p,
                thresholds |-> DEFAULT_FP_THRESHOLDS,
                result |-> quickClassify(p) ]
  /\ UNCHANGED <<thresholds, store, req>>

InitScore ==
  /\ thresholds \in ThresholdSpace
  /\ store = <<>>
  /\ req = Idle
  /\ out = NoResponse

NextScore ==
  \/ ScoreService
  \/ ScoreUtils
  \/ ScoreQuick

SpecScore == InitScore /\ [][NextScore]_vars

\* ------------------------------------------------------------------------
\* Specification of the recurrence analysis over a collection with more
\* recurring entities than the pipeline returns
\* ------------------------------------------------------------------------
MaxEntities == 51

Entity(k) == [id |-> "n" \o ToString(k), name |-> "node", type |-> "HOST"]

\* a problem that affects the entities first..MaxEntities
WideProblem(j, first, start, dur, auto) ==
  Problem("W-" \o ToString(j), "Node not ready", "CLOSED", "AVAILABILITY", dur,
          start, auto, Absent, NoComments, <<>>,
          [k \in 1..(MaxEntities - first + 1) |-> Entity(first + k - 1)])

\* two problems affect every entity (the second starts after day 3), and
\* for j >= 3 problem j affects the entities j..MaxEntities: entities 1 and
\* 2 are named by 2 problems, entity k >= 3 by k problems.  Problems 1 to 3
\* last 3 minutes, the others 20; problems 1, 2 and 4 to 13 carry
\* Autoremediado.
WideStore ==
  [j \in 1..MaxEntities |->
     IF j = 1 THEN WideProblem(1, 1, Iso(2, 1), Num(3), "Si")
     ELSE IF j = 2 THEN WideProblem(2, 1, Iso(4, 0), Num(3), "Si")
     ELSE IF j = 3 THEN WideProblem(3, 3, Iso(2, 3), Num(3), Absent)
     ELSE WideProblem(j, j, Iso(2, 3), Num(20), IF j <= 13 THEN "Si" ELSE Absent)]

InitWide ==
  /\ thresholds = DEFAULT_FP_THRESHOLDS
  /\ store = WideStore
  /\ req = Idle
  /\ out = NoResponse

\* [dateFrom, dateTo] of an entity request: either may be absent
WideWindows ==
  Windows \cup { [from |-> DateOnly(2), to |-> NoTime],
                 [from |-> NoTime, to |-> DateOnly(3)] }

NextWide ==
  \/ \E body \in UpdateBodies : UpdateThresholds(body)
  \/ \E w \in WideWindows : EntityRecurrenceStart(w)
  \/ EntityRecurrenceRespond

SpecWide == InitWide /\ [][NextWide]_vars

\* ------------------------------------------------------------------------
\* Specification of the threshold accessors with the configuration objects
\* kept by address.  Here thresholds is [objects, current, handed]: objects
\* is the sequence of configuration objects allocated so far (an address
\* is a position in it), current is the address this.thresholds refers to
\* and handed is the set of addresses that getThresholds has returned.
\* ------------------------------------------------------------------------
MaxObjects == 5

\* the state after construction: object 1 is DEFAULT_FP_THRESHOLDS, object
\* 2 the copy the constructor stores in this.thresholds
ConstructedHeap ==
  [ objects |-> <<DEFAULT_FP_THRESHOLDS, DEFAULT_FP_THRESHOLDS>>,
    current |-> 2,
    handed |-> {} ]

\* this.thresholds = { ...this.thresholds, ...thresholds } : a new object
\* is allocated and this.thresholds refers to it
setThresholds(h, partial) ==
  [ objects |-> Append(h.objects, MergeSpread(h.objects[h.current], partial)),
    current |-> Len(h.objects) + 1,
    handed |-> h.handed ]

\* return { ...this.thresholds } : a new object is allocated and returned
getThresholds(h) ==
  [ objects |-> Append(h.objects, h.objects[h.current]),
    current |-> h.current,
    handed |-> h.handed \cup {Len(h.objects) + 1} ]

SetThresholdsCall(partial) ==
  /\ Len(thresholds.objects) < MaxObjects
  /\ thresholds' = setThresholds(thresholds, partial)
  /\ out' = [op |-> "setThresholds", status |-> 200, partial |-> partial]
  /\ UNCHANGED <<store, req>>

GetThresholdsCall ==
  /\ Len(thresholds.objects) < MaxObjects
  /\ thresholds' = getThresholds(thresholds)
  /\ out' = [ op |-> "getThresholds", status |-> 200,
              ref |-> Len(thresholds.objects) + 1 ]
  /\ UNCHANGED <<store, req>>

InitObjects ==
  /\ thresholds = ConstructedHeap
  /\ store = <<>>
  /\ req = Idle
  /\ out = NoResponse

NextObjects ==
  \/ \E partial \in UpdateBodies : SetThresholdsCall(partial)
  \/ GetThresholdsCall

SpecObjects == InitObjects /\ [][NextObjects]_vars

\* ------------------------------------------------------------------------
\* Properties
\* ------------------------------------------------------------------------
ValidThresholds(t) ==
  /\ 0 <= t.uncertainThreshold
  /\ t.uncertainThreshold <= t.fpScoreThreshold
  /\ t.fpScoreThreshold <= 1000

IsScoreResponse ==
  /\ out.op \in {"calculateFPScore", "utils.calculateFPScore"}
  /\ ~out.result.threw

\* C1: for every problem record and every valid threshold configuration,
\* the score returned by calculateFPScore lies in [0,1] and so does the
\* confidence.
ScoreAndConfidenceInUnitInterval ==
  (IsScoreResponse /\ ValidThresholds(out.thresholds)) =>
     /\ 0 <= out.result.score /\ out.result.score <= 1000
     /\ 0 <= out.result.confidence /\ out.result.confidence <= 1000

\* a record with negative duration, remediation signals and a manual-close
\* comment was scored by the service with the maximal reason count
C1Witness ==
  /\ out.op = "calculateFPScore"
  /\ ~out.result.threw
  /\ ValidThresholds(out.thresholds)
  /\ out.problem.duration = Num(0 - 5)
  /\ Len(out.result.reasons) = 5
  /\ out.result.confidence = 1000

\* C2: under a valid threshold configuration the classification is
\* FALSE_POSITIVE exactly when score >= fpScoreThreshold, UNCERTAIN exactly
\* when uncertainThreshold <= score < fpScoreThreshold, and TRUE_POSITIVE
\* exactly when score < uncertainThreshold.
ClassificationMatchesThresholds ==
  (IsScoreResponse /\ ValidThresholds(out.thresholds)) =>
     LET sc == out.result.score
         c == out.result.classification
         t == out.thresholds
     IN /\ (c = "FALSE_POSITIVE") <=> (sc >= t.fpScoreThreshold)
        /\ (c = "UNCERTAIN") <=>
              (t.uncertainThreshold <= sc /\ sc < t.fpScoreThreshold)
        /\ (c = "TRUE_POSITIVE") <=> (sc < t.uncertainThreshold)

\* a score exactly on the false-positive cut, above a lower uncertain cut
C2Witness ==
  /\ IsScoreResponse
  /\ ValidThresholds(out.thresholds)
  /\ out.thresholds.uncertainThreshold < out.thresholds.fpScoreThreshold
  /\ out.result.score = out.thresholds.fpScoreThreshold
  /\ out.result.classification = "FALSE_POSITIVE"

\* C3: the stored configuration always satisfies
\* 0 <= uncertainThreshold <= fpScoreThreshold <= 1.
StoredThresholdsValid == ValidThresholds(thresholds)

OutOfRange(body) ==
  /\ "fpScoreThreshold" \in body.present
  /\ (body.vals.fpScoreThreshold < 0 \/ body.vals.fpScoreThreshold > 1000)

\* C4: a threshold update whose fpScoreThreshold is outside [0,1] leaves
\* every field of the stored configuration unchanged and is answered with
\* a validation failure (400).
OutOfRangeUpdateRejected ==
  [][(out'.op = "updateThresholds" /\ OutOfRange(out'.body)) =>
       (thresholds' = thresholds /\ out'.status = 400)]_vars

\* an update with fpScoreThreshold 1.5 and a new highRecurrenceCount was
\* answered 400 and the stored highRecurrenceCount is not the one sent
C4Witness ==
  /\ out.op = "updateThresholds"
  /\ out.status = 400
  /\ out.body.vals.fpScoreThreshold = 1500
  /\ "highRecurrenceCount" \in out.body.present
  /\ thresholds.highRecurrenceCount # out.body.vals.highRecurrenceCount

\* C5: a threshold update that would leave uncertainThreshold above
\* fpScoreThreshold (stored fields merged with the supplied ones) leaves
\* the stored configuration unchanged and is answered with a validation
\* failure.
InvertingUpdateRejected ==
  [][(/\ out'.op = "updateThresholds"
      /\ LET merged == MergeSpread(thresholds, out'.body)
         IN merged.uncertainThreshold > merged.fpScoreThreshold) =>
       (thresholds' = thresholds /\ out'.status = 400)]_vars

\* C6: the summary of getSummaryFast equals, on totals, classification
\* counts, rates, average score and duration buckets, the summary of the
\* per-record path over the same problems under the current thresholds.
FastSummaryEqualsPerRecordSummary ==
  (out.op = "getSummaryFast" /\ ~AnyThrew(analyzeProblems(out.docs, out.thresholds))) =>
     LET ref == calculateSummary(out.docs, analyzeProblems(out.docs, out.thresholds))
         fast == out.summary
     IN /\ fast.totalProblems = ref.totalProblems
        /\ fast.falsePositives = ref.falsePositives
        /\ fast.truePositives = ref.truePositives
        /\ fast.uncertain = ref.uncertain
        /\ fast.autoRemediated = ref.autoRemediated
        /\ fast.totalFPScore = ref.totalFPScore
        /\ \A b \in DurationBuckets :
             Lookup(fast.byDuration, b) = Lookup(ref.byDuration, b)

\* C7: in every summary of the per-record path the classification counts
\* add up to totalProblems and so do the duration bucket counts.
SummaryCountsAddUp ==
  (out.op = "runAnalysis" /\ out.status = 200) =>
     /\ SumTable([c \in Classifications |-> Lookup(out.summary.byClassification, c)])
          = out.summary.totalProblems
     /\ SumTable([b \in DurationBuckets |-> Lookup(out.summary.byDuration, b)])
          = out.summary.totalProblems

\* a summary over two problems with two classifications and two buckets
C7Witness ==
  /\ out.op = "runAnalysis"
  /\ out.status = 200
  /\ out.summary.totalProblems = 2
  /\ out.summary.falsePositives = 1
  /\ out.summary.truePositives = 1
  /\ out.summary.byDuration["15-60min"] = 1

\* the <<document, position>> pairs of docs that name entity id and whose
\* document starts inside [from, to]
PairsInWindow(docs, from, to, id) ==
  { pr \in (DOMAIN docs) \X (1..2) :
      /\ pr[2] \in DOMAIN docs[pr[1]].affectedEntities
      /\ docs[pr[1]].affectedEntities[pr[2]].id = id
      /\ (from # NoTime \/ to # NoTime) => docs[pr[1]].startTime # NoTime
      /\ from # NoTime => docs[pr[1]].startTime >= from
      /\ to # NoTime => docs[pr[1]].startTime <= to }

EntityIds == {"e1", "e2"}

\* C8: an entity with at least 2 and at least highRecurrenceCount problems
\* in the window, all of them classified FALSE_POSITIVE by the scoring
\* engine, is returned by analyzeEntityRecurrence with recurrenceScore 1.0
\* and a recommendation.
AllFalsePositiveEntityIsFlagged ==
  (out.op = "analyzeEntityRecurrence" /\ out.status = 200) =>
     \A id \in EntityIds :
        LET grp == PairsInWindow(out.docs, out.from, out.to, id)
            allFP == \A pr \in grp :
                       LET r == calculateFPScore(out.docs[pr[1]], out.thresholds)
                       IN ~r.threw /\ r.classification = "FALSE_POSITIVE"
        IN (/\ Cardinality(grp) >= 2
            /\ Cardinality(grp) >= out.thresholds.highRecurrenceCount
            /\ allFP) =>
             \E k \in DOMAIN out.entities :
                /\ out.entities[k].entityId = id
                /\ out.entities[k].recurrenceScore = 1000
                /\ out.entities[k].recommendation # "NONE"

Malformed(p) == p.duration.k # "num" \/ p.duration.v < 0

\* C9: runAnalysis never fails because of a malformed record of the batch:
\* it answers 200, totalProblems is the batch size, and a record with
\* absent, negative or non-numeric duration is scored as with duration 0.
BatchAnalysisNeverFails ==
  (out.op = "runAnalysis") =>
     /\ out.status = 200
     /\ out.summary.totalProblems = Len(out.batch)
     /\ \A i \in DOMAIN out.batch :
          Malformed(out.batch[i]) =>
            LET z == calculateFPScore([out.batch[i] EXCEPT !.duration = Num(0)],
                                      out.scoreThresholds)
            IN /\ out.scores[i].score = z.score
               /\ out.scores[i].classification = z.classification

\* C10: analyzeEntityRecurrence (called directly or from runAnalysis)
\* never returns an entity with fewer than 2 problem/affected-entity pairs
\* inside the requested window.
NoEntityBelowTwoProblems ==
  /\ (out.op = "analyzeEntityRecurrence" /\ out.status = 200) =>
        \A k \in DOMAIN out.entities :
           Cardinality(PairsInWindow(out.docs, out.from, out.to,
                                     out.entities[k].entityId)) >= 2
  /\ (out.op = "runAnalysis" /\ out.status = 200) =>
        \A k \in DOMAIN out.summary.topRecurringEntities :
           Cardinality(PairsInWindow(store, WindowIso(out.request.dateFrom),
                                     WindowIso(out.request.dateTo),
                                     out.summary.topRecurringEntities[k].entityId)) >= 2

\* a windowed analysis returned the one entity with two pairs and left
\* out an entity that has exactly one pair in the window
C10Witness ==
  /\ out.op = "analyzeEntityRecurrence"
  /\ out.status = 200
  /\ out.from # NoTime
  /\ Len(out.entities) = 1
  /\ out.entities[1].totalProblems = 2
  /\ \E id \in EntityIds :
       Cardinality(PairsInWindow(out.docs, out.from, out.to, id)) = 1


\* ------------------------------------------------------------------------
\* Scoring rules as the specification words them
\* ------------------------------------------------------------------------
IsServiceCall == out.op = "calculateFPScore"

\* the duration of a record as a number: an absent duration counts as 0
DurationValue(p) == IF p.duration.k = "num" THEN p.duration.v ELSE 0

\* +0.35 below veryShortDurationMinutes, else +0.20 below
\* shortDurationMinutes, else nothing
DurationContribution(p, t) ==
  IF DurationValue(p) < t.veryShortDurationMinutes THEN 350
  ELSE IF DurationValue(p) < t.shortDurationMinutes THEN 200
  ELSE 0

\* a comment (content or context) carries a manual-close keyword
CommentMatchesManualClose(p) ==
  \E i \in DOMAIN CommentsOf(p) :
     MatchesAny(CombinedLower(CommentsOf(p)[i]), MANUAL_CLOSE_KEYWORDS)

\* the weights of the rules that apply, in the order of the rules
ApplicableWeights(p, t) ==
  LET ar == detectAutoRemediation(p)
  IN SelectSeq(
       << DurationContribution(p, t),
          IF ar.isAutoRemediated /\ ar.wasSuccessful THEN 250
          ELSE IF ar.isAutoRemediated THEN 150 ELSE 0,
          IF CommentCountOf(p) = 0 THEN 50 ELSE 0,
          IF DurationValue(p) < 10 /\ CommentMatchesManualClose(p) THEN 150 ELSE 0,
          IF p.severityLevel \in {"RESOURCE_CONTENTION", "PERFORMANCE"} THEN 100 ELSE 0 >>,
       LAMBDA w : w # 0)

\* C11: every call of calculateFPScore returns a score equal to the sum of
\* the weights of the rules that apply (0.35 / 0.20 by duration, 0.25 /
\* 0.15 by auto-remediation, 0.05 for no comments, 0.15 for a quick manual
\* close: duration < 10 and a comment matching a manual-close keyword,
\* 0.10 for RESOURCE_CONTENTION or PERFORMANCE).
ScoreIsSumOfApplicableWeights ==
  IsServiceCall =>
     /\ ~out.result.threw
     /\ out.result.score = Clamp01(FSum(0, ApplicableWeights(out.problem, out.thresholds)))

\* a scored problem of the third scenario: default thresholds, duration 10,
\* severity AVAILABILITY, one comment, no auto-remediation signal
ScenarioC ==
  /\ IsServiceCall
  /\ out.thresholds = DEFAULT_FP_THRESHOLDS
  /\ out.problem.duration = Num(10)
  /\ out.problem.severityLevel = "AVAILABILITY"
  /\ CommentCountOf(out.problem) = 1
  /\ Len(CommentsOf(out.problem)) = 1
  /\ ~IsTruthyToken(out.problem.Autoremediado)
  /\ ~MatchesAny(CombinedLower(CommentsOf(out.problem)[1]), AUTO_REMEDIATION_KEYWORDS)

\* C12: under the default thresholds a problem with duration exactly 10,
\* no auto-remediation signal, exactly one comment and severity
\* AVAILABILITY scores exactly 0.20 and is classified TRUE_POSITIVE.
ScenarioCScoresShortDurationOnly ==
  ScenarioC =>
     /\ ~out.result.threw
     /\ out.result.score = 200
     /\ out.result.classification = "TRUE_POSITIVE"
     /\ Len(out.result.reasons) = 1
     /\ out.result.reasons[1].reason = "SHORT_DURATION"

\* the scenario record whose single comment is a manual-close comment
C12Witness ==
  /\ ScenarioC
  /\ CommentMatchesManualClose(out.problem)
  /\ out.result.score = 200


\* the numeric durations a record is compared with
LongerDurations(p) ==
  {Num(d) : d \in {x \in {0 - 5, 0, 3, 5, 9, 10, 15, 120} : x >= p.duration.v}}

\* the weight of the duration reason of a result (0 when there is none)
DurationWeightOf(res) ==
  IF Len(res.reasons) > 0
     /\ res.reasons[1].reason \in {"VERY_SHORT_DURATION", "SHORT_DURATION"}
  THEN res.reasons[1].weight ELSE 0

\* C14: for fixed thresholds, a problem that differs from the scored one
\* only by a longer (or equal) numeric duration gets a duration
\* contribution and a total score that are not larger.
ScoreNonIncreasingInDuration ==
  (IsServiceCall /\ out.problem.duration.k = "num") =>
     \A d2 \in LongerDurations(out.problem) :
        LET r2 == calculateFPScore([out.problem EXCEPT !.duration = d2], out.thresholds)
        IN /\ ~out.result.threw /\ ~r2.threw
           /\ DurationWeightOf(r2) <= DurationWeightOf(out.result)
           /\ r2.score <= out.result.score

\* a record of 9 minutes with a manual-close comment was scored under the
\* default cutoffs: at 10 minutes it loses the quick-close weight, at 15
\* the duration weight
C14Witness ==
  /\ IsServiceCall
  /\ out.thresholds = DEFAULT_FP_THRESHOLDS
  /\ out.problem.duration = Num(9)
  /\ CommentMatchesManualClose(out.problem)
  /\ DurationWeightOf(out.result) = 200
  /\ calculateFPScore([out.problem EXCEPT !.duration = Num(10)],
                      out.thresholds).score < out.result.score
  /\ calculateFPScore([out.problem EXCEPT !.duration = Num(15)],
                      out.thresholds).score
       < calculateFPScore([out.problem EXCEPT !.duration = Num(10)],
                          out.thresholds).score


\* the classification and the confidence the configuration t gives to a
\* score with n reasons
ClassOfScore(sc, t) ==
  IF sc >= t.fpScoreThreshold THEN "FALSE_POSITIVE"
  ELSE IF sc >= t.uncertainThreshold THEN "UNCERTAIN"
  ELSE "TRUE_POSITIVE"

ConfidenceOfScore(sc, n, t) ==
  Min(1000,
      Min(500 + Min(Abs(sc - t.fpScoreThreshold), Abs(sc - t.uncertainThreshold)), 800)
        + Min(50 * n, 200))

IsAnalysisResponse == out.op = "runAnalysis" /\ out.status = 200

\* C15: whatever threshold updates interleave with a runAnalysis request,
\* every score of its response has its duration cutoffs, its
\* classification and its confidence taken from one stored configuration,
\* the one in force when the batch was scored.
ScoresUseOneConfiguration ==
  IsAnalysisResponse =>
     \A k \in DOMAIN out.scores :
        /\ DurationWeightOf(out.scores[k])
             = DurationContribution(out.batch[k], out.scoreThresholds)
        /\ out.scores[k].classification
             = ClassOfScore(out.scores[k].score, out.scoreThresholds)
        /\ out.scores[k].confidence
             = ConfidenceOfScore(out.scores[k].score, Len(out.scores[k].reasons),
                                 out.scoreThresholds)

\* a request that stored fpScoreThreshold 1.5 when it started was scored
\* after another request's update had replaced that value: the score 0.60
\* is classified by the updated configuration
C15Witness ==
  /\ IsAnalysisResponse
  /\ "fpScoreThreshold" \in out.request.thresholds.present
  /\ out.request.thresholds.vals.fpScoreThreshold = 1500
  /\ out.scoreThresholds.fpScoreThreshold = 600
  /\ \E k \in DOMAIN out.scores :
        /\ out.scores[k].score = 600
        /\ out.scores[k].classification = "FALSE_POSITIVE"


\* a rate or average that is zero, and not the result of a division by
\* zero
IsZero(q) == q.num = 0 /\ q.den # 0

\* every count, rate, distribution and trend of a summary is zero or empty
\* (the list of recurring entities apart)
AllZero(summary) ==
  /\ summary.totalProblems = 0
  /\ summary.falsePositives = 0
  /\ summary.truePositives = 0
  /\ summary.uncertain = 0
  /\ \A c \in DOMAIN summary.byClassification : summary.byClassification[c] = 0
  /\ IsZero(summary.falsePositiveRate)
  /\ IsZero(summary.autoRemediationRate)
  /\ IsZero(summary.avgFPScore)
  /\ DOMAIN summary.byDuration = {}
  /\ DOMAIN summary.bySeverity = {}
  /\ DOMAIN summary.byReason = {}
  /\ summary.dailyTrend = <<>>

\* C16: the summary of an empty problem set has totalProblems 0, all
\* classification counts 0, all rates and averages 0 (none of them a
\* division by zero), empty distributions, trend and top list, and the
\* recommendations generated from it are the single healthy-tier message.
EmptyBatchGivesZeroSummary ==
  /\ (req.pc = "ra_agg" /\ req.batch = <<>>) =>
        (AllZero(req.summary) /\ req.summary.topRecurringEntities = <<>>)
  /\ (IsAnalysisResponse /\ out.batch = <<>>) =>
        /\ AllZero(out.summary)
        /\ EffectiveLimit(out.request) < 1000 =>
              /\ out.summary.topRecurringEntities = <<>>
              /\ out.recommendations = <<"HEALTHY">>
        /\ out.summary.topRecurringEntities = <<>> =>
              out.recommendations = <<"HEALTHY">>

\* the window of a request left no problem of a non-empty collection in
\* the batch, and the response carries the healthy-tier message alone
C16Witness ==
  /\ IsAnalysisResponse
  /\ store # <<>>
  /\ out.batch = <<>>
  /\ out.summary.totalProblems = 0
  /\ out.recommendations = <<"HEALTHY">>


\* C18: a CLOSED problem for which an auto-remediation attempt is detected
\* is scored as a successful remediation, whether the attempt comes from
\* the Autoremediado field or from comment keywords: its result carries
\* AUTO_REMEDIATION_SUCCESS and never AUTO_REMEDIATED.
ClosedMeansRemediationSucceeded ==
  (IsScoreResponse /\ out.problem.status = "CLOSED") =>
     ~HasReason(out.result, {"AUTO_REMEDIATED"})


IsEntityResponse == out.op = "analyzeEntityRecurrence" /\ out.status = 200

\* the grouped problems of entity id that the scoring engine classifies
\* FALSE_POSITIVE when it is given the stored record
FalsePositivePairs(docs, from, to, id, t) ==
  { pr \in PairsInWindow(docs, from, to, id) :
      calculateFPScore(docs[pr[1]], t).classification = "FALSE_POSITIVE" }

\* C19: for every entity returned by analyzeEntityRecurrence,
\* falsePositiveRate is the number of its grouped problems that
\* calculateFPScore classifies FALSE_POSITIVE from the stored record,
\* divided by its totalProblems.
FalsePositiveRateFromStoredRecords ==
  IsEntityResponse =>
     \A k \in DOMAIN out.entities :
        /\ out.entities[k].totalProblems
             = Cardinality(PairsInWindow(out.docs, out.from, out.to,
                                         out.entities[k].entityId))
        /\ out.entities[k].fpCount
             = Cardinality(FalsePositivePairs(out.docs, out.from, out.to,
                                              out.entities[k].entityId,
                                              out.thresholds))

\* the problem/affected-entity pairs of a batch that name entity id
BatchPairs(batch, id) ==
  { pr \in (DOMAIN batch) \X (1..2) :
      /\ pr[2] \in DOMAIN batch[pr[1]].affectedEntities
      /\ batch[pr[1]].affectedEntities[pr[2]].id = id }

\* C20: in a runAnalysis response every entity of
\* summary.topRecurringEntities has a totalProblems equal to the number of
\* problems of the analysed batch that list the entity.
RecurringEntitiesComeFromBatch ==
  IsAnalysisResponse =>
     \A k \in DOMAIN out.summary.topRecurringEntities :
        out.summary.topRecurringEntities[k].totalProblems
          = Cardinality(BatchPairs(out.batch,
                                   out.summary.topRecurringEntities[k].entityId))


\* the entities named by the documents of a collection
NamedIds(docs) ==
  UNION { {docs[i].affectedEntities[j].id : j \in DOMAIN docs[i].affectedEntities} :
          i \in DOMAIN docs }

\* how many times the documents inside [from, to] name entity id
NameCount(docs, from, to, id) ==
  Cardinality(
    UNION { {<<i, j>> : j \in {x \in DOMAIN docs[i].affectedEntities :
                                docs[i].affectedEntities[x].id = id}} :
            i \in {y \in DOMAIN docs :
                     /\ (from # NoTime \/ to # NoTime) => docs[y].startTime # NoTime
                     /\ from # NoTime => docs[y].startTime >= from
                     /\ to # NoTime => docs[y].startTime <= to} })

ReturnedIds == {out.entities[k].entityId : k \in DOMAIN out.entities}

\* C17: analyzeEntityRecurrence returns at most 50 entities, in
\* non-increasing order of totalProblems, and no entity with 2 or more
\* problems that it leaves out has more problems than a returned one.
AtMostFiftyInDescendingOrder ==
  IsEntityResponse =>
     /\ Len(out.entities) <= 50
     /\ \A k \in DOMAIN out.entities :
          /\ out.entities[k].totalProblems
               = NameCount(out.docs, out.from, out.to, out.entities[k].entityId)
          /\ k > 1 => out.entities[k - 1].totalProblems >= out.entities[k].totalProblems
     /\ \A id \in NamedIds(out.docs) \ ReturnedIds :
          NameCount(out.docs, out.from, out.to, id) >= 2 =>
             \A k \in DOMAIN out.entities :
                NameCount(out.docs, out.from, out.to, id) <= out.entities[k].totalProblems

\* more than 50 entities have 2 or more problems: 50 are returned, the first
\* the entity every problem names, and a recurring entity is left out
C17Witness ==
  /\ IsEntityResponse
  /\ Len(out.entities) = 50
  /\ out.entities[1].totalProblems = MaxEntities
  /\ \E id \in NamedIds(out.docs) \ ReturnedIds :
        NameCount(out.docs, out.from, out.to, id) >= 2

\* ------------------------------------------------------------------------
\* Recommendations
\* ------------------------------------------------------------------------
TierMessages == {"CRITICAL", "HIGH", "MODERATE", "HEALTHY"}

\* the tier of falsePositives / totalProblems (rate 0 for no problems)
TierOfRate(fp, total) ==
  IF total > 0 /\ fp * 10 > 5 * total THEN "CRITICAL"
  ELSE IF total > 0 /\ fp * 10 > 3 * total THEN "HIGH"
  ELSE IF total > 0 /\ fp * 10 > total THEN "MODERATE"
  ELSE "HEALTHY"

HasRecommendations ==
  /\ out.op \in {"runAnalysis", "getSummaryFast"}
  /\ out.status = 200

\* C21: every recommendations list, of the full analysis and of the fast
\* summary, holds exactly one false-positive-rate tier message, the one
\* selected by falsePositiveRate (critical > 0.5, high > 0.3, moderate > 0.1,
\* else healthy).
OneTierMessagePerSummary ==
  HasRecommendations =>
     SelectSeq(out.recommendations, LAMBDA m : m \in TierMessages)
       = <<TierOfRate(out.summary.falsePositives, out.summary.totalProblems)>>

\* the same statement for the full analysis path alone
OneTierMessagePerAnalysis ==
  (HasRecommendations /\ out.op = "runAnalysis") =>
     SelectSeq(out.recommendations, LAMBDA m : m \in TierMessages)
       = <<TierOfRate(out.summary.falsePositives, out.summary.totalProblems)>>

\* ------------------------------------------------------------------------
\* Per-entity recommendation
\* ------------------------------------------------------------------------
\* the rates and the average of a returned entity exceed / stay below a
\* bound given in tenths (avgDurationMinutes is 0 when no duration was
\* averaged)
FalsePositiveRateAbove(e, tenths) == e.fpCount * 10 > tenths * e.totalProblems

AutoRemediationRateAbove(e, tenths) == e.autoRemediated * 10 > tenths * e.totalProblems

AverageDurationBelow(e, minutes) ==
  IF e.avgCnt = 0 THEN 0 < minutes ELSE e.avgSum < minutes * e.avgCnt

RecommendationOutcomes ==
  {"TUNE_THRESHOLDS", "RAISE_DETECTION_THRESHOLD", "ADD_ALERT_DELAY", "NONE"}

\* C22: the recommendation of a returned entity is chosen by strict
\* priority: tune thresholds when falsePositiveRate > 0.7, else raise the
\* detection threshold when totalProblems > 10 and autoRemediationRate >
\* 0.8, else add an alert delay when the average duration is below 5
\* minutes, else none.
RecommendationByStrictPriority ==
  IsEntityResponse =>
     \A k \in DOMAIN out.entities :
        /\ out.entities[k].recommendation \in RecommendationOutcomes
        /\ out.entities[k].recommendation = "TUNE_THRESHOLDS"
             <=> FalsePositiveRateAbove(out.entities[k], 7)
        /\ out.entities[k].recommendation = "RAISE_DETECTION_THRESHOLD"
             <=> /\ ~FalsePositiveRateAbove(out.entities[k], 7)
                 /\ out.entities[k].totalProblems > 10
                 /\ AutoRemediationRateAbove(out.entities[k], 8)
        /\ out.entities[k].recommendation = "ADD_ALERT_DELAY"
             <=> /\ ~FalsePositiveRateAbove(out.entities[k], 7)
                 /\ ~(out.entities[k].totalProblems > 10
                        /\ AutoRemediationRateAbove(out.entities[k], 8))
                 /\ AverageDurationBelow(out.entities[k], 5)

\* one response with the four outcomes: a rule of higher priority wins over
\* a short average duration, and an entity with more than 10 problems of
\* which exactly 0.8 are auto-remediated gets no recommendation
C22Witness ==
  /\ IsEntityResponse
  /\ \E k \in DOMAIN out.entities :
        /\ out.entities[k].recommendation = "TUNE_THRESHOLDS"
        /\ AverageDurationBelow(out.entities[k], 5)
  /\ \E k \in DOMAIN out.entities :
        out.entities[k].recommendation = "RAISE_DETECTION_THRESHOLD"
  /\ \E k \in DOMAIN out.entities :
        out.entities[k].recommendation = "ADD_ALERT_DELAY"
  /\ \E k \in DOMAIN out.entities :
        /\ out.entities[k].recommendation = "NONE"
        /\ out.entities[k].totalProblems > 10
        /\ out.entities[k].autoRemediated * 10 = 8 * out.entities[k].totalProblems

\* ------------------------------------------------------------------------
\* Negative durations
\* ------------------------------------------------------------------------
\* the record with its duration replaced by 0
WithZeroDuration(p) == [p EXCEPT !.duration = Num(0)]

HasNegativeDuration(p) == p.duration.k = "num" /\ p.duration.v < 0

\* C23: a problem with a negative duration gets, under every stored
\* threshold configuration, the score, the classification and the duration
\* bucket of the otherwise identical problem with duration 0.
NegativeDurationScoredAsZero ==
  (IsServiceCall /\ HasNegativeDuration(out.problem)) =>
     /\ out.result.threw
          = calculateFPScore(WithZeroDuration(out.problem), out.thresholds).threw
     /\ out.result.score
          = calculateFPScore(WithZeroDuration(out.problem), out.thresholds).score
     /\ out.result.classification
          = calculateFPScore(WithZeroDuration(out.problem), out.thresholds).classification
     /\ DurationBucket(out.problem) = DurationBucket(WithZeroDuration(out.problem))

\* the same statement for the configurations whose very-short bound is
\* positive
NegativeDurationScoredAsZeroAbovePositiveBound ==
  (IsServiceCall /\ HasNegativeDuration(out.problem)
     /\ out.thresholds.veryShortDurationMinutes > 0) =>
     /\ out.result.score
          = calculateFPScore(WithZeroDuration(out.problem), out.thresholds).score
     /\ out.result.classification
          = calculateFPScore(WithZeroDuration(out.problem), out.thresholds).classification

\* ------------------------------------------------------------------------
\* Daily trend
\* ------------------------------------------------------------------------
\* the date portion of the start time of a problem ("unknown" sorts after
\* every date)
StartDate(p) == IF p.startTime = NoTime THEN UnknownDate ELSE p.startTime \div 20

\* the problems of the batch that start on date d
BatchOn(d) == {i \in DOMAIN out.batch : StartDate(out.batch[i]) = d}

\* the entry e of a daily trend counts the batch problems of its date
EntryCountsItsDate(e) ==
  /\ e.total = Cardinality(BatchOn(e.date))
  /\ e.falsePositives
       = Cardinality({i \in BatchOn(e.date) : out.scores[i].classification = "FALSE_POSITIVE"})
  /\ e.falsePositives + e.truePositives <= e.total
  /\ e.total > 0
  /\ e.fpRate = Ratio(e.falsePositives, e.total)

\* C24: in every summary of calculateSummary, dailyTrend has exactly one
\* entry per distinct start date of the input problems, in strictly
\* ascending date order; the totals of the entries add up to totalProblems,
\* and in each entry falsePositives + truePositives <= total and fpRate =
\* falsePositives / total.
DailyTrendOneEntryPerDate ==
  IsAnalysisResponse =>
     /\ {out.summary.dailyTrend[k].date : k \in DOMAIN out.summary.dailyTrend}
          = {StartDate(out.batch[i]) : i \in DOMAIN out.batch}
     /\ \A k \in DOMAIN out.summary.dailyTrend :
          /\ k > 1 => out.summary.dailyTrend[k - 1].date < out.summary.dailyTrend[k].date
          /\ EntryCountsItsDate(out.summary.dailyTrend[k])
     /\ SumSeq([k \in DOMAIN out.summary.dailyTrend |-> out.summary.dailyTrend[k].total])
          = out.summary.totalProblems

\* two problems of one day, one of them a false positive, in one entry
C24Witness ==
  /\ IsAnalysisResponse
  /\ Len(out.batch) = 2
  /\ out.batch[1].startTime # out.batch[2].startTime
  /\ Len(out.summary.dailyTrend) = 1
  /\ out.summary.dailyTrend[1].total = 2
  /\ out.summary.dailyTrend[1].falsePositives = 1

\* two days in ascending order, the second the day without a start time
C24WitnessTwoDays ==
  /\ IsAnalysisResponse
  /\ Len(out.summary.dailyTrend) = 2
  /\ out.summary.dailyTrend[2].date = UnknownDate

\* ------------------------------------------------------------------------
\* Threshold updates
\* ------------------------------------------------------------------------
\* the configuration this.thresholds refers to in heap h
CurrentConfiguration(h) == h.objects[h.current]

\* C25: setThresholds(partial) is a partial replace: after the call every
\* field present in partial has the supplied value and every other field
\* the value it had before, and no configuration that getThresholds has
\* returned is altered.
SetThresholdsIsPartialReplace ==
  [][ /\ out'.op = "setThresholds" =>
           \A f \in ThresholdFields :
              CurrentConfiguration(thresholds')[f]
                = IF f \in out'.partial.present
                  THEN out'.partial.vals[f]
                  ELSE CurrentConfiguration(thresholds)[f]
      /\ \A a \in thresholds.handed :
           thresholds'.objects[a] = thresholds.objects[a] ]_vars

\* an update of one field, after an earlier update of another field, while
\* a caller holds a configuration returned before both
C25Witness ==
  /\ out.op = "setThresholds"
  /\ out.partial.present = {"uncertainThreshold"}
  /\ CurrentConfiguration(thresholds).uncertainThreshold = 800
  /\ CurrentConfiguration(thresholds).highRecurrenceCount = 2
  /\ \E a \in thresholds.handed :
        thresholds.objects[a] = DEFAULT_FP_THRESHOLDS

\* ------------------------------------------------------------------------
\* Request-scoped thresholds
\* ------------------------------------------------------------------------
\* a step of a runAnalysis request
IsRunAnalysisStep ==
  \/ req.pc = "idle" /\ req'.pc = "ra_find"
  \/ req.pc \in {"ra_find", "ra_agg"} /\ req'.pc # req.pc

\* C26: a runAnalysis request that carries custom thresholds affects only
\* that request: no step of the request changes the stored configuration,
\* so getThresholds returns afterwards what it returned before and later
\* requests are scored with the previously stored configuration.
CustomThresholdsAffectOnlyTheirRequest ==
  [][IsRunAnalysisStep => thresholds' = thresholds]_vars

\* ------------------------------------------------------------------------
\* One configuration per request
\* ------------------------------------------------------------------------
\* C27: within one runAnalysis request the thresholds that score the batch
\* and the thresholds that give recurrenceScore and select the
\* high-recurrence entities of the recommendations are one and the same
\* configuration, whatever updates interleave at the awaits of the request.
RequestUsesOneConfiguration ==
  IsAnalysisResponse => out.scoreThresholds = out.thresholds

\* the recurrence score of every returned entity and the recurrence
\* recommendation are taken from the configuration that gives the
\* recommendations
RecurrenceUsesOneConfiguration ==
  IsAnalysisResponse =>
     /\ \A k \in DOMAIN out.summary.topRecurringEntities :
          out.thresholds.highRecurrenceCount > 0 =>
             out.summary.topRecurringEntities[k].recurrenceScore
               = Min(1000, (out.summary.topRecurringEntities[k].totalProblems * 1000)
                             \div out.thresholds.highRecurrenceCount)
     /\ (\E k \in DOMAIN out.recommendations :
            out.recommendations[k] = "HIGH_RECURRENCE")
          <=> \E k \in DOMAIN out.summary.topRecurringEntities :
                 out.summary.topRecurringEntities[k].totalProblems
                   >= out.thresholds.highRecurrenceCount

\* ------------------------------------------------------------------------
\* Service and standalone scoring
\* ------------------------------------------------------------------------
ReasonCodes(res) == [i \in DOMAIN res.reasons |-> res.reasons[i].reason]

\* C28: the standalone calculateFPScore(problem, t) and the service's
\* calculateFPScore(problem) with stored thresholds t return the same
\* score, classification and reason codes for every problem.
ServiceAndUtilsScoreAlike ==
  IsServiceCall =>
     /\ out.result.threw = utilsCalculateFPScore(out.problem, out.thresholds).threw
     /\ out.result.score = utilsCalculateFPScore(out.problem, out.thresholds).score
     /\ out.result.classification
          = utilsCalculateFPScore(out.problem, out.thresholds).classification
     /\ ReasonCodes(out.result)
          = ReasonCodes(utilsCalculateFPScore(out.problem, out.thresholds))

\* ------------------------------------------------------------------------
\* Quick classification
\* ------------------------------------------------------------------------
IsQuickCall == out.op = "utils.quickClassify"

\* the full score of the utilities under the default thresholds
FullScore(p) == utilsCalculateFPScore(p, DEFAULT_FP_THRESHOLDS)

\* C29: quickClassify(problem) returns the classification of
\* calculateFPScore(problem) under the default thresholds for every
\* problem: its two fast paths never disagree with the full score.
QuickClassifyAgreesWithFullScore ==
  (IsQuickCall /\ ~FullScore(out.problem).threw) =>
     /\ ~out.result.threw
     /\ out.result.classification = FullScore(out.problem).classification

\* ------------------------------------------------------------------------
\* Shape of a score result
\* ------------------------------------------------------------------------
\* the scoring step that pushes a reason code
ReasonStep(code) ==
  CASE code \in {"VERY_SHORT_DURATION", "SHORT_DURATION"} -> 1
    [] code \in {"AUTO_REMEDIATION_SUCCESS", "AUTO_REMEDIATED"} -> 2
    [] code = "NO_COMMENTS" -> 3
    [] code = "QUICK_MANUAL_CLOSE" -> 4
    [] code = "LOW_SEVERITY" -> 5
    [] OTHER -> 0

\* C30: in every FPScoreResult the score is the sum of the weights of its
\* reasons (the clamp to [0,1] never changes it), every reason carries the
\* weight of its code, and the reasons are listed in the order duration,
\* auto-remediation, no-comments, quick-manual-close, low-severity with at
\* most one reason per step: no code twice, never VERY_SHORT_DURATION with
\* SHORT_DURATION, never AUTO_REMEDIATED with AUTO_REMEDIATION_SUCCESS.
ScoreIsSumOfOrderedReasons ==
  IsScoreResponse =>
     /\ out.result.score
          = FSum(0, [i \in DOMAIN out.result.reasons |-> out.result.reasons[i].weight])
     /\ \A i \in DOMAIN out.result.reasons :
          /\ ReasonStep(out.result.reasons[i].reason) > 0
          /\ out.result.reasons[i].weight
               = DEFAULT_SCORE_WEIGHTS[out.result.reasons[i].reason]
          /\ i > 1 => ReasonStep(out.result.reasons[i - 1].reason)
                        < ReasonStep(out.result.reasons[i].reason)

\* a result with a reason of every step, whose weights add up to 0.9
C30Witness ==
  /\ IsScoreResponse
  /\ Len(out.result.reasons) = 5
  /\ out.result.score = 900

====
